---- MODULE Spec2Model ----
(***************************************************************************)
(* A model of krypt0nn/markov-chains: the N-gram lifting (ngram.rs), the   *)
(* transition counting (model/transitions.rs, dataset.rs) and the token    *)
(* generator (model/generator.rs).                                         *)
(*                                                                         *)
(* Token identifiers are u64 in the source.  The model narrows the         *)
(* identifier space to 0..END_TOKEN with START_TOKEN the minimum and       *)
(* END_TOKEN the maximum, as u64::MIN and u64::MAX are in the source; no   *)
(* arithmetic is ever done on an identifier.                               *)
(***************************************************************************)
EXTENDS Integers, Sequences, FiniteSets, TLC

(***************************************************************************)
(* Bounds of the model.                                                    *)
(***************************************************************************)
\* longest sentence handed to construct / construct_tailless
MaxLen == 3
\* word tokens are 1..MaxWord
MaxWord == 2
\* most (corpus, weight) pairs pushed into one dataset
MaxCorpora == 2
\* weights handed to with_messages are 0..MaxWeight
MaxWeight == 2

MaxPrompt == 1

MaxToken == 3

(***************************************************************************)
(* tokens.rs: the two reserved identifiers.                                *)
(***************************************************************************)
START_TOKEN == 0
END_TOKEN == 7

WordTokens == 1..MaxWord
AnyTokens == {START_TOKEN, END_TOKEN} \cup WordTokens

\* all sequences over S of length lo..hi
SeqsOf(S, lo, hi) == UNION {[1..n -> S] : n \in lo..hi}

(***************************************************************************)
(* ngram.rs: Ngram<SIZE> is a tuple of SIZE tokens.                        *)
(***************************************************************************)
Repeat(tok, k) == [i \in 1..k |-> tok]

start(SIZE) == Repeat(START_TOKEN, SIZE)

end(SIZE) == Repeat(END_TOKEN, SIZE)

is_start(ngram) == ngram = Repeat(START_TOKEN, Len(ngram))

is_end(ngram) == ngram = Repeat(END_TOKEN, Len(ngram))

is_part_start(ngram) == \E i \in 1..Len(ngram) : ngram[i] = START_TOKEN

is_part_end(ngram) == \E i \in 1..Len(ngram) : ngram[i] = END_TOKEN

token(ngram) == ngram[Len(ngram)]

\* the loop `for i in 0..n - SIZE + 1 { ngrams.push(extended_tokens[i..i + SIZE]) }`
\* shared by construct and construct_tailless (i is 0-based as in the source)
RECURSIVE WindowLoop(_, _, _, _)
WindowLoop(extended_tokens, SIZE, i, ngrams) ==
    IF i >= Len(extended_tokens) - SIZE + 1
    THEN ngrams
    ELSE WindowLoop(extended_tokens, SIZE, i + 1,
                    Append(ngrams, SubSeq(extended_tokens, i + 1, i + SIZE)))

\* a construct whose loop stops one window early
construct_short(tokens, SIZE) ==
    LET extended_tokens == Repeat(START_TOKEN, SIZE) \o tokens \o Repeat(END_TOKEN, SIZE)
        all == WindowLoop(extended_tokens, SIZE, 0, <<>>)
    IN  SubSeq(all, 1, Len(all) - 1)

\* a construct that returns only the two boundary N-grams for an empty sentence
construct_empty_two(tokens, SIZE) ==
    IF tokens = <<>>
    THEN <<Repeat(START_TOKEN, SIZE), Repeat(END_TOKEN, SIZE)>>
    ELSE WindowLoop(Repeat(START_TOKEN, SIZE) \o tokens \o Repeat(END_TOKEN, SIZE),
                    SIZE, 0, <<>>)

construct(tokens, SIZE) ==
    LET extended_tokens == Repeat(START_TOKEN, SIZE) \o tokens \o Repeat(END_TOKEN, SIZE)
    IN  WindowLoop(extended_tokens, SIZE, 0, <<>>)

\* a construct_tailless that keeps one END of the padding
construct_tailless_one_end(tokens, SIZE) ==
    LET extended_tokens == Repeat(START_TOKEN, SIZE) \o tokens \o <<END_TOKEN>>
    IN  WindowLoop(extended_tokens, SIZE, 0, <<>>)

construct_tailless(tokens, SIZE) ==
    LET extended_tokens == Repeat(START_TOKEN, SIZE) \o tokens
    IN  WindowLoop(extended_tokens, SIZE, 0, <<>>)

\* `ngrams.len() - SIZE` on usize.  When ngrams.len() < SIZE the subtraction
\* overflows: a build with overflow checks (the debug profile) panics, a build
\* without them (the release profile) wraps to 2^64 + len - SIZE, which is more
\* than len, so take() keeps every N-gram.  -1 stands for the panic.
take_count(len, SIZE, overflow_checks) ==
    IF len >= SIZE THEN len - SIZE
    ELSE IF overflow_checks THEN -1
    ELSE len

\* the body of the loop of deconstruct over ngrams[i..limit) (i is 0-based)
RECURSIVE DeconstructLoop(_, _, _, _)
DeconstructLoop(ngrams, i, limit, tokens) ==
    IF i >= limit THEN tokens
    ELSE IF is_start(ngrams[i + 1]) THEN DeconstructLoop(ngrams, i + 1, limit, tokens)
    ELSE IF is_end(ngrams[i + 1]) THEN tokens
    ELSE DeconstructLoop(ngrams, i + 1, limit, Append(tokens, token(ngrams[i + 1])))

\* a deconstruct that forgets `.take(ngrams.len() - SIZE)`
deconstruct_no_take(ngrams, SIZE, overflow_checks) ==
    [panicked |-> FALSE, tokens |-> DeconstructLoop(ngrams, 0, Len(ngrams), <<>>)]

\* the result is the returned Vec<u64>, or a panic
deconstruct(ngrams, SIZE, overflow_checks) ==
    LET n == take_count(Len(ngrams), SIZE, overflow_checks)
    IN  IF n < 0
        THEN [panicked |-> TRUE, tokens |-> <<>>]
        ELSE [panicked |-> FALSE, tokens |-> DeconstructLoop(ngrams, 0, n, <<>>)]

(***************************************************************************)
(* dataset.rs: Dataset.messages is a Vec of (TokenizedMessages, weight);   *)
(* TokenizedMessages.messages is a HashSet of sentences.  A dataset is a   *)
(* sequence of pairs <<set of sentences, weight>>.                         *)
(***************************************************************************)
with_messages(ds, messages, weight) == Append(ds, <<messages, weight>>)

(***************************************************************************)
(* model/transitions.rs.  A HashMap is a function whose domain is the set  *)
(* of its keys.  Counts are u64; the model's counts stay far below 2^64,   *)
(* so `+=` never overflows here.                                           *)
(***************************************************************************)
EmptyMap == <<>>

EmptyTransitions ==
    [forward_transitions |-> EmptyMap,
     backward_transitions |-> EmptyMap,
     total_occurences |-> EmptyMap]

\* map.insert(key, value): the map with key bound to value
Insert(map, key, value) == (key :> value) @@ map

\* *map.entry(outer).or_default().entry(inner).or_default() += weight
AddCount(map, outer, inner, weight) ==
    LET row == IF outer \in DOMAIN map THEN map[outer] ELSE EmptyMap
        old == IF inner \in DOMAIN row THEN row[inner] ELSE 0
    IN  Insert(map, outer, Insert(row, inner, old + weight))

\* *total_occurences.entry(ngram).or_default() += 1
AddOccurence(map, ngram) ==
    Insert(map, ngram, (IF ngram \in DOMAIN map THEN map[ngram] ELSE 0) + 1)

\* a loop body that adds 1 where the source adds the weight
MessageStep_unweighted(message, weight, i, t) ==
    LET n == Len(message)
    IN  [forward_transitions |->
            IF i < n - 1
            THEN AddCount(t.forward_transitions, message[i + 1], message[i + 2], 1)
            ELSE t.forward_transitions,
         backward_transitions |->
            IF i > 0
            THEN AddCount(t.backward_transitions, message[i + 1], message[i], 1)
            ELSE t.backward_transitions,
         total_occurences |-> AddOccurence(t.total_occurences, message[i + 1])]

\* a loop body whose backward update starts one position late (`i > 1`)
MessageStep_backward_late(message, weight, i, t) ==
    LET n == Len(message)
    IN  [forward_transitions |->
            IF i < n - 1
            THEN AddCount(t.forward_transitions, message[i + 1], message[i + 2], weight)
            ELSE t.forward_transitions,
         backward_transitions |->
            IF i > 1
            THEN AddCount(t.backward_transitions, message[i + 1], message[i], weight)
            ELSE t.backward_transitions,
         total_occurences |-> AddOccurence(t.total_occurences, message[i + 1])]

\* the body of `for i in 0..n { ... }` over one lifted sentence (i is 0-based)
MessageStep(message, weight, i, t) ==
    LET n == Len(message)
    IN  [forward_transitions |->
            IF i < n - 1
            THEN AddCount(t.forward_transitions, message[i + 1], message[i + 2], weight)
            ELSE t.forward_transitions,
         backward_transitions |->
            IF i > 0
            THEN AddCount(t.backward_transitions, message[i + 1], message[i], weight)
            ELSE t.backward_transitions,
         total_occurences |-> AddOccurence(t.total_occurences, message[i + 1])]

\* `for i in 0..n { ... }`: the loop state is the index and the tables so far
RECURSIVE MessageLoop(_, _, _)
MessageLoop(message, weight, loop) ==
    IF loop.i >= Len(message) THEN loop.t
    ELSE MessageLoop(message, weight,
                     [i |-> loop.i + 1, t |-> MessageStep(message, weight, loop.i, loop.t)])

\* `for message in &messages.messages`: a HashSet is iterated in an arbitrary
\* order; every step only adds to counts, so the result is the same in any
\* order and the model takes one.  The loop state is the sentences left and
\* the tables so far.
RECURSIVE MessagesLoop(_, _, _)
MessagesLoop(weight, NGRAM_SIZE, loop) ==
    IF loop.messages = {} THEN loop.t
    ELSE LET message == CHOOSE m \in loop.messages : TRUE
         IN  MessagesLoop(weight, NGRAM_SIZE,
                [messages |-> loop.messages \ {message},
                 t |-> MessageLoop(construct(message, NGRAM_SIZE), weight,
                                   [i |-> 0, t |-> loop.t])])

\* `for (messages, weight) in &dataset.messages`: the loop state is the index
\* of the next pair and the tables so far
RECURSIVE DatasetLoop(_, _, _)
DatasetLoop(ds, NGRAM_SIZE, loop) ==
    IF loop.k > Len(ds) THEN loop.t
    ELSE DatasetLoop(ds, NGRAM_SIZE,
            [k |-> loop.k + 1,
             t |-> MessagesLoop(ds[loop.k][2], NGRAM_SIZE,
                                [messages |-> ds[loop.k][1], t |-> loop.t])])

build_from_dataset(ds, NGRAM_SIZE) ==
    DatasetLoop(ds, NGRAM_SIZE, [k |-> 1, t |-> EmptyTransitions])

\* Option<T>
None == [some |-> FALSE]

Some(v) == [some |-> TRUE, value |-> v]

\* the f64 quotient `*count as f64 / total as f64`, kept exact as <<count, total>>
get_forward_probability(t, current_ngram, next_ngram) ==
    IF current_ngram \notin DOMAIN t.forward_transitions THEN None
    ELSE LET row == t.forward_transitions[current_ngram]
         IN  IF next_ngram \notin DOMAIN row THEN None
             ELSE Some(<<row[next_ngram], Cardinality(DOMAIN row)>>)

get_backward_probability(t, previous_ngram, current_ngram) ==
    IF current_ngram \notin DOMAIN t.backward_transitions THEN None
    ELSE LET row == t.backward_transitions[current_ngram]
         IN  IF previous_ngram \notin DOMAIN row THEN None
             ELSE Some(<<row[previous_ngram], Cardinality(DOMAIN row)>>)

\* `self.forward_transitions.get(&ngram).map(|transitions| transitions.iter())`:
\* the iterator is the successor map of the N-gram
get_forward_transitions(t, ngram) ==
    IF ngram \in DOMAIN t.forward_transitions
    THEN Some(t.forward_transitions[ngram])
    ELSE None

get_backward_transitions(t, ngram) ==
    IF ngram \in DOMAIN t.backward_transitions
    THEN Some(t.backward_transitions[ngram])
    ELSE None

\* a lookup that answers a miss with the default count
get_total_occurences_or_default(t, ngram) ==
    IF ngram \in DOMAIN t.total_occurences
    THEN Some(t.total_occurences[ngram])
    ELSE Some(0)

\* `self.total_occurences.get(&ngram).copied()`
get_total_occurences(t, ngram) ==
    IF ngram \in DOMAIN t.total_occurences
    THEN Some(t.total_occurences[ngram])
    ELSE None

\* the filter `!k.is_part_start() && !k.is_part_end()`
without_sentinels(ngram) == ~is_part_start(ngram) /\ ~is_part_end(ngram)

\* `transitions.filter(..).count()` for the successor map of one N-gram
count_paths(row) == Cardinality({k \in DOMAIN row : without_sentinels(k)})

\* `.sum()` over the filtered keys: the loop state is the keys left and the
\* sum so far
RECURSIVE ComplexityLoop(_, _)
ComplexityLoop(map, loop) ==
    IF loop.left = {} THEN loop.sum
    ELSE LET k == CHOOSE key \in loop.left : TRUE
         IN  ComplexityLoop(map, [left |-> loop.left \ {k},
                                  sum |-> loop.sum + count_paths(map[k])])

\* Transitions::calc_complexity
calc_complexity(t) ==
    ComplexityLoop(t.forward_transitions,
        [left |-> {k \in DOMAIN t.forward_transitions : without_sentinels(k)},
         sum |-> 0])

\* Transitions::forward_len
forward_len(t) == Cardinality(DOMAIN t.forward_transitions)

\* Transitions::calc_avg_paths: the f64 quotient is kept exact as
\* <<complexity, forward_len>>; <<0, 0>> is the NaN that 0.0 / 0.0 gives
calc_avg_paths(t) == <<calc_complexity(t), forward_len(t)>>

\* `*count > avg_paths` on f64: false when avg_paths is NaN
more_than(count, avg_paths) ==
    avg_paths[2] # 0 /\ count * avg_paths[2] > avg_paths[1]

\* Transitions::calc_variety, kept exact as <<more_than_avg_paths, forward_len>>
calc_variety(t) ==
    LET avg_paths == calc_avg_paths(t)
        more_than_avg_paths ==
            Cardinality({k \in DOMAIN t.forward_transitions :
                            /\ without_sentinels(k)
                            /\ more_than(count_paths(t.forward_transitions[k]), avg_paths)})
    IN  <<more_than_avg_paths, forward_len(t)>>

(***************************************************************************)
(* model/generator.rs.  The f64 parameters and the uniform draws are exact *)
(* rationals <<numerator, denominator>> with a positive denominator; the   *)
(* values the model draws them from are exact in f64 too.                  *)
(***************************************************************************)
RatLess(a, b) == a[1] * b[2] < b[1] * a[2]

RatMul(a, b) == <<a[1] * b[1], a[2] * b[2]>>

\* f64::powi with a count as exponent
RECURSIVE powi(_, _)
powi(x, k) == IF k <= 0 THEN <<1, 1>> ELSE RatMul(x, powi(x, k - 1))

\* `((1.0 - k_normal) * len as f64).floor() as usize / 2`; a negative float
\* cast to usize is 0
normal_offset(k_normal, len) ==
    LET numerator == (k_normal[2] - k_normal[1]) * len
    IN  IF numerator < 0 THEN 0 ELSE (numerator \div k_normal[2]) \div 2

\* the model bundles one forward table per order; a table that was not built
\* answers every lookup with None
for_ngram(model_transitions, ngram) ==
    LET table == model_transitions[Len(ngram)]
    IN  IF table.some /\ ngram \in DOMAIN table.value
        THEN Some(table.value[ngram])
        ELSE None

for_unigram(model_transitions, unigram) == for_ngram(model_transitions, unigram)

for_bigram(model_transitions, bigram) == for_ngram(model_transitions, bigram)

for_trigram(model_transitions, trigram) == for_ngram(model_transitions, trigram)

\* a lookup of the last N-gram of the full lifting of the chain, tail included
order_continuations_with_tail(model_transitions, chain, order) ==
    LET lifted_chain == construct(chain, order)
        found == for_ngram(model_transitions, lifted_chain[Len(lifted_chain)])
    IN  IF found.some
        THEN {<<token(ngram), found.value[ngram]>> :
                ngram \in {n \in DOMAIN found.value : ~is_end(n)}}
        ELSE {}

\* one order's lookup: the last N-gram of the tailless lifting of the chain,
\* its successors without the all-END N-gram, each as (emitted token, count).
\* The result is the content of the collected Vec; its order is the HashMap's
\* iteration order.
order_continuations(model_transitions, chain, order) ==
    LET lifted_chain == construct_tailless(chain, order)
        found == for_ngram(model_transitions, lifted_chain[Len(lifted_chain)])
    IN  IF found.some
        THEN {<<token(ngram), found.value[ngram]>> :
                ngram \in {n \in DOMAIN found.value : ~is_end(n)}}
        ELSE {}

\* a back-off that asks the unigram table first
continuations_order_lowest_first(model_transitions, generation_params, chain) ==
    IF order_continuations(model_transitions, chain, 1) # {}
    THEN 1
    ELSE IF /\ ~generation_params.no_bigrams
            /\ order_continuations(model_transitions, chain, 2) # {}
    THEN 2
    ELSE IF /\ ~generation_params.no_trigrams
            /\ order_continuations(model_transitions, chain, 3) # {}
    THEN 3
    ELSE 0

\* the order whose table supplies the continuations, 0 when none does
continuations_order(model_transitions, generation_params, chain) ==
    IF /\ ~generation_params.no_trigrams
       /\ order_continuations(model_transitions, chain, 3) # {}
    THEN 3
    ELSE IF /\ ~generation_params.no_bigrams
            /\ order_continuations(model_transitions, chain, 2) # {}
    THEN 2
    ELSE IF order_continuations(model_transitions, chain, 1) # {}
    THEN 1
    ELSE 0

\* every order a HashMap may iterate a set of entries in
RECURSIVE IterationOrders(_)
IterationOrders(entries) ==
    IF entries = {} THEN {<<>>}
    ELSE UNION {{<<first>> \o rest : rest \in IterationOrders(entries \ {first})} :
                    first \in entries}

\* the place a stable ascending sort gives x among the already sorted ones:
\* behind every entry whose count is not greater
InsertByCount(sorted, x) ==
    LET before == Cardinality({i \in 1..Len(sorted) : sorted[i][2] <= x[2]})
    IN  SubSeq(sorted, 1, before) \o <<x>> \o SubSeq(sorted, before + 1, Len(sorted))

\* `continuations.sort_by(|a, b| a.1.cmp(&b.1))`, a stable sort
RECURSIVE sort_by_count(_)
sort_by_count(continuations) ==
    IF continuations = <<>> THEN <<>>
    ELSE InsertByCount(sort_by_count(SubSeq(continuations, 1, Len(continuations) - 1)),
                       continuations[Len(continuations)])

\* `self.chain.iter().rev().take(repeat_penalty_window).filter(|t| **t == next).count()`
count_repeats(chain, repeat_penalty_window, next) ==
    Cardinality({i \in 1..Len(chain) :
                    i > Len(chain) - repeat_penalty_window /\ chain[i] = next})

\* whether the draw keeps the last (highest-count) continuation
keeps_last(generation_params, chain, next, random_seed) ==
    LET repeats == count_repeats(chain, generation_params.repeat_penalty_window, next)
    IN  IF repeats > 0
        THEN RatLess(random_seed, powi(generation_params.repeat_penalty, repeats))
        ELSE RatLess(random_seed,
                     RatMul(generation_params.temperature,
                            powi(generation_params.temperature_alpha, Len(chain))))

\* `rand::random::<u32>() as f64 / u32::MAX as f64`: both ends of [0, 1] are
\* drawn, 1/2 stands for the values between them
Uniforms == { <<0, 1>>, <<1, 2>>, <<1, 1>> }

\* the draws one call of next() can make: the rejection loop takes one per
\* iteration, so fewer than there are continuations
DrawSequences(continuations) == [1..(Len(continuations) - 1) -> Uniforms]

\* `while continuations.len() > 1 { ... continuations.pop(); }`: the loop state
\* is the continuations left and the draws not yet made
RECURSIVE rejection_loop(_, _, _)
rejection_loop(generation_params, chain, loop) ==
    IF Len(loop.continuations) <= 1 THEN loop.continuations
    ELSE IF keeps_last(generation_params, chain,
                       loop.continuations[Len(loop.continuations)][1], Head(loop.draws))
    THEN loop.continuations
    ELSE rejection_loop(generation_params, chain,
            [continuations |-> SubSeq(loop.continuations, 1, Len(loop.continuations) - 1),
             draws |-> Tail(loop.draws)])

\* an end of next() without the length stop
emit_without_length_stop(generation_params, chain, next) ==
    IF next = END_TOKEN
    THEN [item |-> None, chain |-> chain]
    ELSE [item |-> Some(next), chain |-> Append(chain, next)]

\* the end of next() without the END_TOKEN check
emit_without_end_check(generation_params, chain, next) ==
    IF Len(chain) > generation_params.min_len /\ Len(chain) > generation_params.max_len
    THEN [item |-> None, chain |-> chain]
    ELSE [item |-> Some(next), chain |-> Append(chain, next)]

\* an end of next() that pushes the token before it tests it for END_TOKEN
emit_push_before_end_check(generation_params, chain, next) ==
    IF Len(chain) > generation_params.min_len /\ Len(chain) > generation_params.max_len
    THEN [item |-> None, chain |-> chain]
    ELSE IF next = END_TOKEN
    THEN [item |-> None, chain |-> Append(chain, next)]
    ELSE [item |-> Some(next), chain |-> Append(chain, next)]

\* the end of next(): the length stop, the END_TOKEN stop, the push
emit(generation_params, chain, next) ==
    IF Len(chain) > generation_params.min_len /\ Len(chain) > generation_params.max_len
    THEN [item |-> None, chain |-> chain]
    ELSE IF next = END_TOKEN
    THEN [item |-> None, chain |-> chain]
    ELSE [item |-> Some(next), chain |-> Append(chain, next)]

\* the k_normal trimming, done on the Vec as collected, and the sort: None
\* when the window is empty, else the continuations left, by ascending count
normal_window(generation_params, continuations) ==
    LET offset == normal_offset(generation_params.k_normal, Len(continuations))
    IN  IF Len(continuations) <= offset * 2
        THEN None
        ELSE Some(sort_by_count(SubSeq(continuations, offset + 1,
                                       Len(continuations) - offset)))

\* the rejection loop over the sorted continuations and the stop checks
draw_next(generation_params, chain, sorted, draws) ==
    LET left == rejection_loop(generation_params, chain,
                               [continuations |-> sorted, draws |-> draws])
    IN  emit(generation_params, chain, left[Len(left)][1])

\* next() from the collected continuations on: the result is the returned
\* item and the chain afterwards
select_next(generation_params, chain, continuations, draws) ==
    LET window == normal_window(generation_params, continuations)
    IN  IF ~window.some
        THEN [item |-> None, chain |-> chain]
        ELSE draw_next(generation_params, chain, window.value, draws)

\* every result next() can have from the collected continuations on, over
\* the draws of its rejection loop
select_outcomes(generation_params, chain, continuations) ==
    LET window == normal_window(generation_params, continuations)
    IN  IF ~window.some
        THEN {[item |-> None, chain |-> chain]}
        ELSE {draw_next(generation_params, chain, window.value, draws) :
                draws \in DrawSequences(window.value)}

(***************************************************************************)
(* tokens.rs and tokenized_messages.rs.  A word is a string, a Messages    *)
(* value a set of sentences of words, a Tokens value the two maps          *)
(* word_token and token_word.  rand::random::<u64>() draws from            *)
(* RandomTokens, which holds both sentinels.                               *)
(***************************************************************************)
START_TOKEN_NAME == "<START>"

END_TOKEN_NAME == "<END>"

RandomTokens == {START_TOKEN, END_TOKEN} \cup (1..MaxToken)

\* Tokens::default()
DefaultTokens == [token_word |-> EmptyMap, word_token |-> EmptyMap]

\* the condition of `while token_word.contains_key(&token) || token ==
\* START_TOKEN || token == END_TOKEN`
token_taken(token_word, tok) ==
    tok \in DOMAIN token_word \/ tok = START_TOKEN \/ tok = END_TOKEN

\* a while loop without the test against the sentinels
loop_tokens_no_sentinel_test(token_word, tok) ==
    IF tok \notin DOMAIN token_word THEN {tok}
    ELSE {drawn \in RandomTokens : drawn \notin DOMAIN token_word}

\* the values the while loop can leave in `token`: the token it starts with
\* when the condition is false at once, else any later draw that ends the loop
loop_tokens(token_word, tok) ==
    IF ~token_taken(token_word, tok) THEN {tok}
    ELSE {drawn \in RandomTokens : ~token_taken(token_word, drawn)}

\* `word_token.insert(word, token); token_word.insert(token, word)`
insert_word(vocabulary, word, tok) ==
    [token_word |-> Insert(vocabulary.token_word, tok, word),
     word_token |-> Insert(vocabulary.word_token, word, tok)]

\* the words of the messages in the order the two nested loops visit them
RECURSIVE Flatten(_)
Flatten(messages) ==
    IF messages = <<>> THEN <<>> ELSE Head(messages) \o Flatten(Tail(messages))

\* the loops of parse_from_messages over the words still to visit: every
\* vocabulary the draws can leave
RECURSIVE ParseLoop(_, _)
ParseLoop(words, vocabulary) ==
    IF words = <<>> THEN {vocabulary}
    ELSE IF Head(words) \in DOMAIN vocabulary.word_token
    THEN ParseLoop(Tail(words), vocabulary)
    ELSE UNION {ParseLoop(Tail(words), insert_word(vocabulary, Head(words), tok)) :
                    tok \in UNION {loop_tokens(vocabulary.token_word, drawn) :
                                      drawn \in RandomTokens}}

\* Tokens::parse_from_messages: every vocabulary it can return
parse_from_messages(messages) ==
    UNION {ParseLoop(Flatten(order), DefaultTokens) : order \in IterationOrders(messages)}

\* one iteration of the loop of merge that does not test whether the word is
\* known already
merge_entry_overwrites(self, word, tok) ==
    {insert_word(self, word, kept) : kept \in loop_tokens(self.token_word, tok)}

\* one iteration of the loop of merge for an entry (word, token) of the
\* argument: every vocabulary it can leave
merge_entry(self, word, tok) ==
    IF word \in DOMAIN self.word_token THEN {self}
    ELSE {insert_word(self, word, kept) : kept \in loop_tokens(self.token_word, tok)}

\* the loop of merge over the entries of the argument not yet visited, in any
\* order the map may iterate them
RECURSIVE MergeLoop(_, _, _)
MergeLoop(self, word_token, words) ==
    IF words = {} THEN {self}
    ELSE UNION {UNION {MergeLoop(merged, word_token, words \ {word}) :
                          merged \in merge_entry(self, word, word_token[word])} :
                    word \in words}

\* Tokens::merge: every vocabulary it can return
merge(self, tokens) == MergeLoop(self, tokens.word_token, DOMAIN tokens.word_token)

\* Tokens::find_token
find_token(vocabulary, word) ==
    IF word \in DOMAIN vocabulary.word_token
    THEN Some(vocabulary.word_token[word])
    ELSE None

\* Tokens::find_word
find_word(vocabulary, tok) ==
    IF tok = START_TOKEN THEN Some(START_TOKEN_NAME)
    ELSE IF tok = END_TOKEN THEN Some(END_TOKEN_NAME)
    ELSE IF tok \in DOMAIN vocabulary.token_word
    THEN Some(vocabulary.token_word[tok])
    ELSE None

\* an inner loop that leaves out a word without a token and goes on
RECURSIVE TokenizeWords_skips_unknown(_, _, _)
TokenizeWords_skips_unknown(message, vocabulary, loop) ==
    IF loop.i > Len(message) THEN [ok |-> TRUE, message_tokens |-> loop.message_tokens]
    ELSE LET found == find_token(vocabulary, message[loop.i])
         IN  TokenizeWords_skips_unknown(message, vocabulary,
                [i |-> loop.i + 1,
                 message_tokens |-> IF found.some
                                    THEN Append(loop.message_tokens, found.value)
                                    ELSE loop.message_tokens])

\* the inner loop of tokenize_message over the words of one message, from
\* word i on: the tokens of the message, or the word that has none
RECURSIVE TokenizeWords(_, _, _)
TokenizeWords(message, vocabulary, loop) ==
    IF loop.i > Len(message) THEN [ok |-> TRUE, message_tokens |-> loop.message_tokens]
    ELSE LET found == find_token(vocabulary, message[loop.i])
         IN  IF ~found.some THEN [ok |-> FALSE, word |-> message[loop.i]]
             ELSE TokenizeWords(message, vocabulary,
                    [i |-> loop.i + 1,
                     message_tokens |-> Append(loop.message_tokens, found.value)])

\* the outer loop of tokenize_message over the messages in one iteration order
RECURSIVE TokenizeLoop(_, _, _)
TokenizeLoop(messages, vocabulary, tokenized) ==
    IF messages = <<>> THEN [ok |-> TRUE, messages |-> tokenized]
    ELSE LET message == TokenizeWords(Head(messages), vocabulary,
                                      [i |-> 1, message_tokens |-> <<>>])
         IN  IF ~message.ok THEN message
             ELSE TokenizeLoop(Tail(messages), vocabulary,
                               tokenized \cup {message.message_tokens})

\* TokenizedMessages::tokenize_message: every result it can return, Ok with
\* the set of tokenized messages or Err naming the word without a token
tokenize_message(messages, vocabulary) ==
    {TokenizeLoop(order, vocabulary, {}) : order \in IterationOrders(messages)}

\* Tokens::len
len(vocabulary) == Cardinality(DOMAIN vocabulary.token_word)

\* `words.join(" ")`
RECURSIVE join(_, _)
join(words, separator) ==
    IF words = <<>> THEN ""
    ELSE IF Len(words) = 1 THEN words[1]
    ELSE words[1] \o separator \o join(Tail(words), separator)

\* the loop of detokenize_message: the loop state is the index of the next
\* token and the words so far
RECURSIVE DetokenizeLoop(_, _, _)
DetokenizeLoop(v, message_tokens, loop) ==
    IF loop.i > Len(message_tokens) THEN [ok |-> TRUE, text |-> join(loop.words, " ")]
    ELSE LET word == find_word(v, message_tokens[loop.i])
         IN  IF ~word.some THEN [ok |-> FALSE, token |-> message_tokens[loop.i]]
             ELSE DetokenizeLoop(v, message_tokens,
                    [i |-> loop.i + 1, words |-> Append(loop.words, word.value)])

\* Tokens::detokenize_message: Ok with the text or Err naming the token
\* without a word
detokenize_message(v, message_tokens) ==
    DetokenizeLoop(v, message_tokens, [i |-> 1, words |-> <<>>])

\* Dataset::with_tokens: every value of dataset.tokens it can leave
with_tokens(dataset_tokens, new_tokens) == merge(dataset_tokens, new_tokens)

(***************************************************************************)
(* chains.rs.  A share `amount as f32 / total_tokens as f32` is kept exact *)
(* as <<amount, total_tokens>>; <<0, 0>> is the NaN that 0.0 / 0.0 gives.  *)
(***************************************************************************)
\* the loop over the positions of one message but the last: the loop state is
\* the position (from 1) and raw_chains
RECURSIVE ChainsMessageLoop(_, _, _)
ChainsMessageLoop(message, weight, loop) ==
    IF loop.i > Len(message) - 1 THEN loop.raw_chains
    ELSE LET continuations ==
                 IF message[loop.i] \in DOMAIN loop.raw_chains
                 THEN loop.raw_chains[message[loop.i]]
                 ELSE <<>>
         IN  ChainsMessageLoop(message, weight,
                [i |-> loop.i + 1,
                 raw_chains |-> Insert(loop.raw_chains, message[loop.i],
                                       Append(continuations,
                                              <<message[loop.i + 1], weight>>))])

\* `for message in &messages.messages`: the order of the pushes depends on the
\* iteration order of the HashSet, the sums taken of them later do not, so
\* the model takes one order
RECURSIVE ChainsMessagesLoop(_, _)
ChainsMessagesLoop(weight, loop) ==
    IF loop.messages = {} THEN loop
    ELSE LET message == CHOOSE m \in loop.messages : TRUE
         IN  ChainsMessagesLoop(weight,
                [messages |-> loop.messages \ {message},
                 raw_chains |-> ChainsMessageLoop(message, weight,
                                    [i |-> 1, raw_chains |-> loop.raw_chains]),
                 beginnings |-> loop.beginnings \cup {message[1]},
                 endings |-> loop.endings \cup {message[Len(message)]}])

\* `for (messages, weight) in &dataset.messages`
RECURSIVE ChainsDatasetLoop(_, _)
ChainsDatasetLoop(ds, loop) ==
    IF loop.k > Len(ds) THEN loop
    ELSE LET done == ChainsMessagesLoop(ds[loop.k][2],
                        [messages |-> ds[loop.k][1], raw_chains |-> loop.raw_chains,
                         beginnings |-> loop.beginnings, endings |-> loop.endings])
         IN  ChainsDatasetLoop(ds,
                [k |-> loop.k + 1, raw_chains |-> done.raw_chains,
                 beginnings |-> done.beginnings, endings |-> done.endings])

\* the loop that sums the weights pushed for each next token
RECURSIVE continuations_sized(_)
continuations_sized(continuations_raw) ==
    IF continuations_raw = <<>> THEN EmptyMap
    ELSE LET sized == continuations_sized(Tail(continuations_raw))
             next == Head(continuations_raw)[1]
             value == IF next \in DOMAIN sized THEN sized[next] ELSE 0
         IN  Insert(sized, next, value + Head(continuations_raw)[2])

\* `continuations_sized.values().copied().sum::<u64>()`
RECURSIVE total_tokens(_)
total_tokens(continuations_raw) ==
    IF continuations_raw = <<>> THEN 0
    ELSE Head(continuations_raw)[2] + total_tokens(Tail(continuations_raw))

\* the place a stable ascending sort by share gives x
InsertByShare(sorted, x) ==
    LET before == Cardinality({i \in 1..Len(sorted) : ~RatLess(x[2], sorted[i][2])})
    IN  SubSeq(sorted, 1, before) \o <<x>> \o SubSeq(sorted, before + 1, Len(sorted))

\* `continuations.sort_by(|a, b| a.1.partial_cmp(&b.1).unwrap())`
RECURSIVE sort_by_share(_)
sort_by_share(continuations) ==
    IF continuations = <<>> THEN <<>>
    ELSE InsertByShare(sort_by_share(SubSeq(continuations, 1, Len(continuations) - 1)),
                       continuations[Len(continuations)])

\* the Vecs the second loop can insert for one token: the shares pushed in
\* any iteration order of continuations_sized, then sorted
chain_rows(continuations_raw) ==
    LET sized == continuations_sized(continuations_raw)
        total == total_tokens(continuations_raw)
    IN  {sort_by_share(order) :
            order \in IterationOrders({<<next, <<sized[next], total>>>> :
                                          next \in DOMAIN sized})}

\* whether the sort of the Vec of one token unwraps a None: it compares as
\* soon as there are two entries, and every share is NaN when the total is 0
sort_panics(continuations_raw) ==
    /\ Cardinality(DOMAIN continuations_sized(continuations_raw)) > 1
    /\ total_tokens(continuations_raw) = 0

\* `for (token, continuations_raw) in raw_chains`: every map the loop can build
RECURSIVE ChainsLoop(_, _, _)
ChainsLoop(raw_chains, left, chains) ==
    IF left = {} THEN {chains}
    ELSE LET tok == CHOOSE key \in left : TRUE
         IN  UNION {ChainsLoop(raw_chains, left \ {tok}, Insert(chains, tok, row)) :
                        row \in chain_rows(raw_chains[tok])}

\* Chains::build_from_dataset: every value it can return, or the panic
chains_build_from_dataset(ds) ==
    LET raw == ChainsDatasetLoop(ds, [k |-> 1, raw_chains |-> EmptyMap,
                                      beginnings |-> {}, endings |-> {}])
    IN  IF \E tok \in DOMAIN raw.raw_chains : sort_panics(raw.raw_chains[tok])
        THEN {[built |-> TRUE, panicked |-> TRUE]}
        ELSE {[built |-> TRUE, panicked |-> FALSE, chains |-> built_chains,
               beginnings |-> raw.beginnings, endings |-> raw.endings] :
                built_chains \in ChainsLoop(raw.raw_chains, DOMAIN raw.raw_chains, EmptyMap)}

\* Chains::is_beginning
is_beginning(c, tok) == tok \in c.beginnings

\* Chains::is_ending
is_ending(c, tok) == tok \in c.endings

\* Chains::get_continuations
get_continuations(c, tok) ==
    IF tok \in DOMAIN c.chains THEN Some(c.chains[tok]) ELSE None

(***************************************************************************)
(* State.                                                                  *)
(***************************************************************************)
VARIABLES
    \* the N-gram functions applied to one sentence
    tokens,             \* the sentence handed to construct / construct_tailless
    SIZE,               \* the order of Ngram<SIZE>
    overflow_checks,    \* whether the build checks integer overflow
    lifted,             \* "none", "construct" or "construct_tailless"
    ngrams,             \* the Vec<Ngram<SIZE>> returned
    deconstructed,      \* the result of deconstruct(ngrams), or NotRun
    \* a dataset and the Transitions<NGRAM_SIZE> built from it
    dataset,            \* Dataset.messages
    NGRAM_SIZE,         \* the order the table was built at, 0 before the build
    transitions,        \* the Transitions built from dataset
    query,              \* the last probability query and what it returned
    chains,             \* the Chains built from dataset, or NotBuilt
    \* a Generator
    model,              \* Generator.model: the forward tables by order
    params,             \* Generator.params
    chain,              \* Generator.chain
    item,               \* what the last call of next() returned, or NotCalled
    adopted,            \* the order and the entries the last call of next() adopted
    yielded,            \* the tokens next() has yielded so far, in order
    \* two Tokens values and the last call made on them
    vocabulary,         \* the Tokens that merge is called on
    operand,            \* the Tokens last parsed, the argument of merge
    last_call,          \* the last call and, for tokenize_message, its result
    sources             \* for each corpus of the dataset, the message each of
                        \* its sentences was tokenized from

NotRun == [panicked |-> FALSE, tokens |-> <<-1>>]

NoQuery == [op |-> "none"]

NotBuilt == [built |-> FALSE]

NoCall == [op |-> "none"]

NotCalled == [some |-> FALSE, called |-> FALSE]

NoneAdopted == [order |-> 0, continuations |-> {}]

ngram_vars == <<tokens, SIZE, overflow_checks, lifted, ngrams, deconstructed>>

build_vars == <<dataset, NGRAM_SIZE, transitions, query, chains>>

gen_vars == <<model, params, chain, item, adopted, yielded>>

tokens_vars == <<vocabulary, operand, last_call, sources>>

vars == <<ngram_vars, build_vars, gen_vars, tokens_vars>>

\* the part of the state a specification does not use stays as it is here
NgramIdle ==
    /\ tokens = <<>>
    /\ SIZE = 1
    /\ overflow_checks = FALSE
    /\ lifted = "none"
    /\ ngrams = <<>>
    /\ deconstructed = NotRun

BuildIdle ==
    /\ dataset = <<>>
    /\ NGRAM_SIZE = 0
    /\ transitions = EmptyTransitions
    /\ query = NoQuery
    /\ chains = NotBuilt

GenIdle ==
    /\ model = <<>>
    /\ params = <<>>
    /\ chain = <<>>
    /\ item = NotCalled
    /\ adopted = NoneAdopted
    /\ yielded = <<>>

TokensIdle ==
    /\ vocabulary = DefaultTokens
    /\ operand = DefaultTokens
    /\ last_call = NoCall
    /\ sources = <<>>

(***************************************************************************)
(* SpecNgram: construct, construct_tailless and deconstruct applied to     *)
(* every sentence of at most MaxLen tokens, sentinel values included, at   *)
(* every order and under both build profiles.                              *)
(***************************************************************************)
NgramInit ==
    /\ tokens \in SeqsOf(AnyTokens, 0, MaxLen)
    /\ SIZE \in 1..3
    /\ overflow_checks \in BOOLEAN
    /\ lifted = "none"
    /\ ngrams = <<>>
    /\ deconstructed = NotRun
    /\ BuildIdle
    /\ GenIdle
    /\ TokensIdle

Construct ==
    /\ lifted = "none"
    /\ lifted' = "construct"
    /\ ngrams' = construct(tokens, SIZE)
    /\ UNCHANGED <<tokens, SIZE, overflow_checks, deconstructed, build_vars, gen_vars, tokens_vars>>

ConstructTailless ==
    /\ lifted = "none"
    /\ lifted' = "construct_tailless"
    /\ ngrams' = construct_tailless(tokens, SIZE)
    /\ UNCHANGED <<tokens, SIZE, overflow_checks, deconstructed, build_vars, gen_vars, tokens_vars>>

Deconstruct ==
    /\ lifted # "none"
    /\ deconstructed = NotRun
    /\ deconstructed' = deconstruct(ngrams, SIZE, overflow_checks)
    /\ UNCHANGED <<tokens, SIZE, overflow_checks, lifted, ngrams, build_vars, gen_vars, tokens_vars>>

NgramNext == Construct \/ ConstructTailless \/ Deconstruct

SpecNgram == NgramInit /\ [][NgramNext]_vars

(***************************************************************************)
(* Claims about the N-gram functions, checked under SpecNgram.             *)
(***************************************************************************)
NoSentinel(s) == \A i \in 1..Len(s) : s[i] \in WordTokens

IsPrefix(p, s) == Len(p) <= Len(s) /\ p = SubSeq(s, 1, Len(p))

Returned(s) == [panicked |-> FALSE, tokens |-> s]

\* the sentence padded with SIZE START tokens in front and SIZE END tokens behind
Padded(s, N) ==
    [j \in 1..(Len(s) + 2 * N) |->
        IF j <= N THEN START_TOKEN
        ELSE IF j <= N + Len(s) THEN s[j - N]
        ELSE END_TOKEN]

\* the i-th window (1-based) of the padded sentence
Window(s, N, i) == SubSeq(Padded(s, N), i, i + N - 1)

\* C1 as stated: for any sentence, whatever the values of its tokens, and any
\* order, deconstruct(construct(s)) returns s.
C1_RoundTripAnyTokens ==
    (lifted = "construct" /\ deconstructed # NotRun)
        => deconstructed = Returned(tokens)

\* C1 amended: for any sentence of word tokens (none of them START_TOKEN or
\* END_TOKEN), of any length including 0, and any order 1..3,
\* deconstruct(construct(s)) returns s.
C1_RoundTripWordTokens ==
    (lifted = "construct" /\ deconstructed # NotRun /\ NoSentinel(tokens))
        => deconstructed = Returned(tokens)

C1_Witness ==
    /\ lifted = "construct"
    /\ deconstructed # NotRun
    /\ NoSentinel(tokens)
    /\ Len(tokens) = MaxLen
    /\ SIZE = 3
    /\ deconstructed = Returned(tokens)

\* C2: for any sentence of word tokens, the empty one and the ones shorter than
\* the order included, deconstruct(construct_tailless(s)) completes normally
\* and returns a prefix of s.
C2_TaillessPrefix ==
    (lifted = "construct_tailless" /\ deconstructed # NotRun /\ NoSentinel(tokens))
        => /\ ~deconstructed.panicked
           /\ IsPrefix(deconstructed.tokens, tokens)

\* C3: construct(s) returns exactly Len(s) + SIZE + 1 N-grams, the i-th being
\* the i-th window of the padded sentence; the first is all START, the last
\* all END.
C3_ConstructWindows ==
    lifted = "construct"
        => /\ Len(ngrams) = Len(tokens) + SIZE + 1
           /\ \A i \in 1..Len(ngrams) : ngrams[i] = Window(tokens, SIZE, i)
           /\ ngrams[1] = start(SIZE)
           /\ ngrams[Len(ngrams)] = end(SIZE)

C3_Witness ==
    /\ lifted = "construct"
    /\ SIZE = 3
    /\ Len(tokens) = 2
    /\ NoSentinel(tokens)
    /\ Len(ngrams) = 6

IsMixed(ngram) == is_part_start(ngram) /\ is_part_end(ngram)

\* C4 as stated: construct(<<>>) is <<START, END>> at order 1 and, at every
\* order from 2 up, three windows: all START, one mixed window, all END.
C4_EmptyThreeWindows ==
    (lifted = "construct" /\ tokens = <<>>)
        => IF SIZE = 1
           THEN ngrams = << <<START_TOKEN>>, <<END_TOKEN>> >>
           ELSE /\ Len(ngrams) = 3
                /\ is_start(ngrams[1])
                /\ IsMixed(ngrams[2])
                /\ is_end(ngrams[3])

\* C4 amended: construct(<<>>) at order N is N + 1 windows of pure padding: the
\* all-START N-gram, then N - 1 mixed windows (the i-th of them N - i START
\* tokens followed by i END tokens), then the all-END N-gram; so <<START, END>>
\* at order 1, one mixed window at order 2 and two at order 3.
C4_EmptyPadding ==
    (lifted = "construct" /\ tokens = <<>>)
        => /\ Len(ngrams) = SIZE + 1
           /\ is_start(ngrams[1])
           /\ is_end(ngrams[SIZE + 1])
           /\ \A i \in 1..(SIZE - 1) :
                /\ IsMixed(ngrams[i + 1])
                /\ ngrams[i + 1] = Repeat(START_TOKEN, SIZE - i) \o Repeat(END_TOKEN, i)
           /\ (SIZE = 1 => ngrams = << <<START_TOKEN>>, <<END_TOKEN>> >>)

C4_Witness ==
    /\ lifted = "construct"
    /\ tokens = <<>>
    /\ SIZE = 3
    /\ Len(ngrams) = 4
    /\ IsMixed(ngrams[2])
    /\ IsMixed(ngrams[3])

\* C5: construct_tailless(s) is construct(s) without its final SIZE windows,
\* and the last slot of its last N-gram is the last token of s, or START_TOKEN
\* when s is empty.
C5_TaillessDropsTail ==
    lifted = "construct_tailless"
        => LET full == construct(tokens, SIZE)
           IN  /\ ngrams = SubSeq(full, 1, Len(full) - SIZE)
               /\ Len(ngrams) >= 1
               /\ token(ngrams[Len(ngrams)]) =
                    (IF tokens = <<>> THEN START_TOKEN ELSE tokens[Len(tokens)])

C5_Witness ==
    /\ lifted = "construct_tailless"
    /\ SIZE = 2
    /\ Len(tokens) = 2
    /\ NoSentinel(tokens)
    /\ Len(ngrams) = 3
    /\ token(ngrams[3]) = tokens[2]

(***************************************************************************)
(* SpecBuild: a dataset is assembled by with_messages, a Transitions table *)
(* is built from it at one order, and the table is queried.                *)
(***************************************************************************)
\* the tokenized corpora handed to with_messages: the empty corpus, one
\* sentence, two sentences sharing a prefix (one of them shorter than the
\* order), and a sentence repeating one token beside another sentence
SampleCorpora ==
    { {},
      {<<1, 2>>},
      {<<1>>, <<1, 2>>},
      {<<1, 1, 1>>, <<2, 1>>} }

BuildInit ==
    /\ NgramIdle
    /\ GenIdle
    /\ TokensIdle
    /\ dataset = <<>>
    /\ NGRAM_SIZE = 0
    /\ transitions = EmptyTransitions
    /\ query = NoQuery
    /\ chains = NotBuilt

\* Dataset::with_messages.  The table is compared with the dataset it was
\* built from, so the dataset grows only before the build.
WithMessages ==
    /\ NGRAM_SIZE = 0
    /\ ~chains.built
    /\ Len(dataset) < MaxCorpora
    /\ \E messages \in SampleCorpora, weight \in 0..MaxWeight :
            dataset' = with_messages(dataset, messages, weight)
    /\ UNCHANGED <<NGRAM_SIZE, transitions, query, chains, ngram_vars, gen_vars, tokens_vars>>

\* Transitions::<N>::build_from_dataset(&dataset)
BuildFromDataset ==
    /\ NGRAM_SIZE = 0
    /\ \E N \in 1..3 :
            /\ NGRAM_SIZE' = N
            /\ transitions' = build_from_dataset(dataset, N)
    /\ UNCHANGED <<dataset, query, chains, ngram_vars, gen_vars, tokens_vars>>

\* the N-grams a query is made with: every key of the forward table with each
\* of its successors, and the two N-grams that are never such a key or such a
\* successor
GetForwardProbability ==
    /\ NGRAM_SIZE # 0
    /\ query = NoQuery
    /\ \E current_ngram \in DOMAIN transitions.forward_transitions \cup {end(NGRAM_SIZE)} :
       \E next_ngram \in
            (IF current_ngram \in DOMAIN transitions.forward_transitions
             THEN DOMAIN transitions.forward_transitions[current_ngram]
             ELSE {}) \cup {start(NGRAM_SIZE)} :
            query' = [op |-> "get_forward_probability",
                      current_ngram |-> current_ngram,
                      next_ngram |-> next_ngram,
                      result |-> get_forward_probability(transitions, current_ngram, next_ngram)]
    /\ UNCHANGED <<dataset, NGRAM_SIZE, transitions, chains, ngram_vars, gen_vars, tokens_vars>>

BuildNext == WithMessages \/ BuildFromDataset \/ GetForwardProbability

SpecBuild == BuildInit /\ [][BuildNext]_vars

(***************************************************************************)
(* Claims about the transition tables, checked under SpecBuild.            *)
(***************************************************************************)
RECURSIVE SumOver(_, _)
\* the sum of f[x] over the x of the finite set S
SumOver(S, f) ==
    IF S = {} THEN 0
    ELSE LET x == CHOOSE y \in S : TRUE
         IN  f[x] + SumOver(S \ {x}, f)

\* the positions at which b immediately follows a in the lifting of sentence s
FollowPositions(s, N, a, b) ==
    LET padded == Padded(s, N)
    IN  {i \in 1..(Len(s) + N) :
            /\ SubSeq(padded, i, i + N - 1) = a
            /\ SubSeq(padded, i + 1, i + N) = b}

\* weight times the number of such positions, summed over the sentences of one
\* corpus
CorpusCount(messages, weight, N, a, b) ==
    SumOver(messages, [s \in messages |-> weight * Cardinality(FollowPositions(s, N, a, b))])

\* ... and summed over every (corpus, weight) of the dataset
ExpectedCount(ds, N, a, b) ==
    SumOver(1..Len(ds), [k \in 1..Len(ds) |-> CorpusCount(ds[k][1], ds[k][2], N, a, b)])

\* whether b follows a somewhere in the lifting of some sentence of the dataset
Follows(ds, N, a, b) ==
    \E k \in 1..Len(ds) : \E s \in ds[k][1] : FollowPositions(s, N, a, b) # {}

\* every N-gram of the lifting of some sentence of the dataset
LiftedNgrams(ds, N) ==
    UNION {UNION {{Window(s, N, i) : i \in 1..(Len(s) + N + 1)} : s \in ds[k][1]} :
           k \in 1..Len(ds)}

Keys(map) == DOMAIN map \cup UNION {DOMAIN map[k] : k \in DOMAIN map}

\* the N-grams the claims range over: those of the dataset and those of the tables
Universe ==
    LiftedNgrams(dataset, NGRAM_SIZE)
        \cup Keys(transitions.forward_transitions)
        \cup Keys(transitions.backward_transitions)

HasEntry(map, outer, inner) == outer \in DOMAIN map /\ inner \in DOMAIN map[outer]

Built == NGRAM_SIZE # 0 /\ query = NoQuery

\* C6: after build_from_dataset, a forward entry (a, b) exists exactly when b
\* follows a at some position of some lifted sentence, and its count is the
\* sum over every (corpus, weight) and every sentence of the corpus of weight
\* times the number of such positions.
C6_ForwardCounts ==
    Built =>
        \A a \in Universe, b \in Universe :
            /\ HasEntry(transitions.forward_transitions, a, b)
                    <=> Follows(dataset, NGRAM_SIZE, a, b)
            /\ HasEntry(transitions.forward_transitions, a, b)
                    => transitions.forward_transitions[a][b]
                            = ExpectedCount(dataset, NGRAM_SIZE, a, b)

\* the same pair is counted within a sentence, in two sentences of a corpus and
\* in two corpora of different weights
C6_Witness ==
    /\ Built
    /\ NGRAM_SIZE = 1
    /\ dataset = << <<{<<1, 1, 1>>, <<2, 1>>}, 2>>, <<{<<1>>, <<1, 2>>}, 1>> >>
    /\ transitions.forward_transitions[<<1>>][<<1>>] = 4
    /\ transitions.forward_transitions[<<START_TOKEN>>][<<1>>] = 4
    /\ transitions.forward_transitions[<<1>>][<<END_TOKEN>>] = 5

\* C7: the backward table is the transpose of the forward table:
\* backward[b][a] is present iff forward[a][b] is, with the same count.
C7_BackwardIsTranspose ==
    Built =>
        \A a \in Universe, b \in Universe :
            /\ HasEntry(transitions.backward_transitions, b, a)
                    <=> HasEntry(transitions.forward_transitions, a, b)
            /\ HasEntry(transitions.forward_transitions, a, b)
                    => transitions.backward_transitions[b][a]
                            = transitions.forward_transitions[a][b]

C7_Witness ==
    /\ Built
    /\ NGRAM_SIZE = 2
    /\ HasEntry(transitions.forward_transitions, <<1, 2>>, <<2, END_TOKEN>>)
    /\ transitions.backward_transitions[<<2, END_TOKEN>>][<<1, 2>>] = 3

\* C8: every count stored in the forward and backward tables built from a
\* dataset assembled through with_messages is strictly positive.
C8_CountsPositive ==
    Built =>
        \A a \in Universe, b \in Universe :
            /\ HasEntry(transitions.forward_transitions, a, b)
                    => transitions.forward_transitions[a][b] > 0
            /\ HasEntry(transitions.backward_transitions, a, b)
                    => transitions.backward_transitions[a][b] > 0

\* the sum of the counts of a's successor map
RowSum(map, a) == SumOver(DOMAIN map[a], map[a])

\* C9: for a context a of the forward table and a successor b of a,
\* get_forward_probability(a, b) is count(a, b) divided by the sum of the
\* counts of a's successors (the exact quotients num/den and count/sum are
\* compared by cross-multiplication), so the probabilities of a's successors
\* sum to 1.
C9_ProbabilityIsCountOverSum ==
    (/\ query.op = "get_forward_probability"
     /\ HasEntry(transitions.forward_transitions, query.current_ngram, query.next_ngram)
     /\ RowSum(transitions.forward_transitions, query.current_ngram) > 0)
        => LET row == transitions.forward_transitions[query.current_ngram]
               total == RowSum(transitions.forward_transitions, query.current_ngram)
               probs == [b \in DOMAIN row |->
                            get_forward_probability(transitions, query.current_ngram, b)]
           IN  /\ query.result.some
               /\ query.result.value[1] * total
                        = row[query.next_ngram] * query.result.value[2]
               \* all the quotients share the denominator probs[b].value[2]
               /\ SumOver(DOMAIN row, [b \in DOMAIN row |-> probs[b].value[1]])
                        = query.result.value[2]

(***************************************************************************)
(* SpecQuery: a table is built at one order from one of the datasets below *)
(* and one query is made of it, with N-grams the tables hold and N-grams   *)
(* they do not.                                                            *)
(***************************************************************************)
QueryDatasets ==
    { <<>>,
      << <<{<<1, 2>>}, 1>> >>,
      << <<{<<1, 1, 1>>, <<2, 1>>}, 2>>, <<{<<1>>, <<1, 2>>}, 1>> >>,
      << <<{<<1, 2, 1, 2>>, <<1, 1>>, <<2>>}, 1>> >> }

QueryInit ==
    /\ NgramIdle
    /\ GenIdle
    /\ TokensIdle
    /\ dataset \in QueryDatasets
    /\ NGRAM_SIZE = 0
    /\ transitions = EmptyTransitions
    /\ query = NoQuery
    /\ chains = NotBuilt

\* the N-grams a query is made with: every N-gram of the tables, the two
\* boundary N-grams and an N-gram of a word no dataset holds
QueryNgrams ==
    DOMAIN transitions.total_occurences
        \cup {start(NGRAM_SIZE), end(NGRAM_SIZE), Repeat(MaxWord + 1, NGRAM_SIZE)}

QueryUnchanged ==
    UNCHANGED <<dataset, NGRAM_SIZE, transitions, chains, ngram_vars, gen_vars, tokens_vars>>

GetForwardTransitions ==
    /\ NGRAM_SIZE # 0
    /\ query = NoQuery
    /\ \E ngram \in QueryNgrams :
            query' = [op |-> "get_forward_transitions", ngram |-> ngram,
                      result |-> get_forward_transitions(transitions, ngram)]
    /\ QueryUnchanged

GetBackwardTransitions ==
    /\ NGRAM_SIZE # 0
    /\ query = NoQuery
    /\ \E ngram \in QueryNgrams :
            query' = [op |-> "get_backward_transitions", ngram |-> ngram,
                      result |-> get_backward_transitions(transitions, ngram)]
    /\ QueryUnchanged

GetTotalOccurences ==
    /\ NGRAM_SIZE # 0
    /\ query = NoQuery
    /\ \E ngram \in QueryNgrams :
            query' = [op |-> "get_total_occurences", ngram |-> ngram,
                      result |-> get_total_occurences(transitions, ngram)]
    /\ QueryUnchanged

\* the previous N-grams asked for are the predecessors of the current one and
\* one that is never a predecessor
GetBackwardProbability ==
    /\ NGRAM_SIZE # 0
    /\ query = NoQuery
    /\ \E current_ngram \in QueryNgrams :
       \E previous_ngram \in
            (IF current_ngram \in DOMAIN transitions.backward_transitions
             THEN DOMAIN transitions.backward_transitions[current_ngram]
             ELSE {}) \cup {end(NGRAM_SIZE)} :
            query' = [op |-> "get_backward_probability",
                      previous_ngram |-> previous_ngram,
                      current_ngram |-> current_ngram,
                      result |-> get_backward_probability(transitions, previous_ngram,
                                                          current_ngram)]
    /\ QueryUnchanged

CalcComplexity ==
    /\ NGRAM_SIZE # 0
    /\ query = NoQuery
    /\ query' = [op |-> "calc_complexity", result |-> Some(calc_complexity(transitions))]
    /\ QueryUnchanged

CalcAvgPaths ==
    /\ NGRAM_SIZE # 0
    /\ query = NoQuery
    /\ query' = [op |-> "calc_avg_paths", result |-> Some(calc_avg_paths(transitions))]
    /\ QueryUnchanged

CalcVariety ==
    /\ NGRAM_SIZE # 0
    /\ query = NoQuery
    /\ query' = [op |-> "calc_variety", result |-> Some(calc_variety(transitions))]
    /\ QueryUnchanged

QueryNext ==
    \/ BuildFromDataset
    \/ GetForwardTransitions
    \/ GetBackwardTransitions
    \/ GetTotalOccurences
    \/ GetForwardProbability
    \/ GetBackwardProbability
    \/ CalcComplexity
    \/ CalcAvgPaths
    \/ CalcVariety

SpecQuery == QueryInit /\ [][QueryNext]_vars

\* what a query of an N-gram the table lacks must return
MissReturnsNone(q) ==
    /\ (q.op = "get_forward_transitions"
            /\ q.ngram \notin DOMAIN transitions.forward_transitions)
          => q.result = None
    /\ (q.op = "get_backward_transitions"
            /\ q.ngram \notin DOMAIN transitions.backward_transitions)
          => q.result = None
    /\ (q.op = "get_total_occurences"
            /\ q.ngram \notin DOMAIN transitions.total_occurences)
          => q.result = None
    /\ (q.op = "get_forward_probability"
            /\ ~HasEntry(transitions.forward_transitions, q.current_ngram, q.next_ngram))
          => q.result = None
    /\ (q.op = "get_backward_probability"
            /\ ~HasEntry(transitions.backward_transitions, q.current_ngram,
                         q.previous_ngram))
          => q.result = None

\* C21: every query of a Transitions value returns an Option and leaves the
\* tables as they are; for an N-gram the table asked lacks it returns None,
\* and get_forward_probability(a, b) returns None as well when a is a key and
\* b is not one of its successors.
C21_QueriesTotal ==
    [][query' # query =>
          /\ transitions' = transitions
          /\ query'.result.some \in BOOLEAN
          /\ MissReturnsNone(query')]_vars

\* C21 happens: a table that holds N-grams was asked for the occurences of
\* one it lacks and answered None
C21_Witness ==
    /\ query.op = "get_total_occurences"
    /\ transitions.total_occurences # EmptyMap
    /\ query.ngram \notin DOMAIN transitions.total_occurences
    /\ query.result = None

\* the keys of the forward table that hold neither START nor END
SentinelFreeKeys == {a \in DOMAIN transitions.forward_transitions : without_sentinels(a)}

\* the successors of a that hold neither START nor END
SentinelFreeSuccessors(a) ==
    {b \in DOMAIN transitions.forward_transitions[a] : without_sentinels(b)}

\* C26: calc_complexity is the sum over the sentinel-free contexts a of the
\* number of sentinel-free successors of a, and the table size that
\* calc_avg_paths and calc_variety divide by is the number of sentinel-free
\* keys of the forward table.
C26_MetricsWithoutSentinels ==
    /\ query.op = "calc_complexity" =>
          query.result.value =
              SumOver(SentinelFreeKeys,
                      [a \in SentinelFreeKeys |-> Cardinality(SentinelFreeSuccessors(a))])
    /\ query.op = "calc_avg_paths" =>
          query.result.value[2] = Cardinality(SentinelFreeKeys)
    /\ query.op = "calc_variety" =>
          query.result.value[2] = Cardinality(SentinelFreeKeys)

(***************************************************************************)
(* SpecChains: a dataset is assembled by with_messages and a Chains value  *)
(* is built from it.                                                       *)
(***************************************************************************)
\* Chains::build_from_dataset(&dataset)
ChainsBuildFromDataset ==
    /\ ~chains.built
    /\ \E result \in chains_build_from_dataset(dataset) : chains' = result
    /\ UNCHANGED <<dataset, NGRAM_SIZE, transitions, query, ngram_vars, gen_vars, tokens_vars>>

ChainsNext == WithMessages \/ ChainsBuildFromDataset

SpecChains == BuildInit /\ [][ChainsNext]_vars

\* the tokens of the sentences of a dataset
DatasetTokens(ds) ==
    UNION {UNION {{s[i] : i \in 1..Len(s)} : s \in ds[k][1]} : k \in 1..Len(ds)}

\* the sentences of a dataset
Sentences(ds) == UNION {ds[k][1] : k \in 1..Len(ds)}

\* the weighted number of times next follows tok in the sentences
PairCount(ds, tok, next) == ExpectedCount(ds, 1, <<tok>>, <<next>>)

\* the tokens that follow tok somewhere
NextTokens(ds, tok) ==
    {next \in DatasetTokens(ds) :
        \E s \in Sentences(ds) : \E i \in 1..(Len(s) - 1) : s[i] = tok /\ s[i + 1] = next}

\* the weighted number of times tok is followed by a token
TotalCount(ds, tok) ==
    SumOver(NextTokens(ds, tok), [next \in NextTokens(ds, tok) |-> PairCount(ds, tok, next)])

\* what the claim says of the continuations listed for tok
ListsWeightShares(ds, tok, continuations) ==
    /\ {continuations[i][1] : i \in 1..Len(continuations)} = NextTokens(ds, tok)
    /\ Len(continuations) = Cardinality(NextTokens(ds, tok))
    /\ \A i \in 1..Len(continuations) :
          LET share == continuations[i][2]
          IN  /\ share[2] > 0
              /\ share[1] * TotalCount(ds, tok)
                    = PairCount(ds, tok, continuations[i][1]) * share[2]
    /\ \A i \in 1..(Len(continuations) - 1) :
          ~RatLess(continuations[i + 1][2], continuations[i][2])
    /\ SumOver(1..Len(continuations),
               [i \in 1..Len(continuations) |-> continuations[i][2][1]])
          = TotalCount(ds, tok)
    /\ TotalCount(ds, tok) > 0

\* C20: for Chains::build_from_dataset on a dataset of non-empty sentences,
\* is_beginning(t) iff t is the first token of a sentence, is_ending(t) iff t
\* is the last token of one, get_continuations(t) is None iff t never occurs
\* in a non-final position, and else lists each distinct next token once with
\* its weight share, in ascending order, the shares summing to 1.
C20_ChainsFromDataset ==
    chains.built =>
        /\ ~chains.panicked
        /\ \A tok \in DatasetTokens(dataset) \cup {START_TOKEN, END_TOKEN} :
              /\ is_beginning(chains, tok) <=> \E s \in Sentences(dataset) : s[1] = tok
              /\ is_ending(chains, tok) <=> \E s \in Sentences(dataset) : s[Len(s)] = tok
              /\ ~get_continuations(chains, tok).some <=> NextTokens(dataset, tok) = {}
              /\ get_continuations(chains, tok).some =>
                    ListsWeightShares(dataset, tok, get_continuations(chains, tok).value)

(***************************************************************************)
(* SpecGen: a Generator over a model built from a sample dataset, started  *)
(* on every prompt of at most MaxPrompt words, under every combination of  *)
(* the parameter values below; next() is called again and again, after a   *)
(* None too.                                                               *)
(***************************************************************************)
GenDatasets ==
    { \* two words, counts that differ
      << <<{<<1, 2>>, <<1, 1, 2>>, <<2, 1>>}, 1>>, <<{<<1, 2>>}, 2>> >>,
      \* a cycle
      << <<{<<1, 1, 1>>}, 1>> >>,
      \* two sentences without a common word
      << <<{<<1, 2>>, <<3>>}, 1>> >>,
      \* four successors of one context, the end of the sentence among them
      << <<{<<1, 1>>, <<1, 2>>, <<1, 3>>, <<1>>}, 1>>, <<{<<1, 2>>, <<1>>}, 2>> >>,
      \* a sentence holding the value of END_TOKEN as a word
      << <<{<<1, END_TOKEN, 2>>, <<1, 2>>}, 1>> >>,
      \* a word that follows another one and never starts a sentence
      << <<{<<1, 2, 1>>}, 1>> >>,
      \* a corpus of weight 0
      << <<{<<1, 2>>}, 0>> >> }

\* the unigram table is always built, the bigram and trigram tables on request
build_model(ds, build_bigram, build_trigram) ==
    [transitions |->
        << Some(build_from_dataset(ds, 1).forward_transitions),
           IF build_bigram THEN Some(build_from_dataset(ds, 2).forward_transitions) ELSE None,
           IF build_trigram THEN Some(build_from_dataset(ds, 3).forward_transitions) ELSE None >>]

GenModels ==
    {build_model(ds, build_bigram, build_trigram) :
        ds \in GenDatasets, build_bigram \in BOOLEAN, build_trigram \in BOOLEAN}

\* temperature, temperature_alpha, repeat_penalty, repeat_penalty_window
SamplingProfiles ==
    { [temperature |-> <<1, 1>>, temperature_alpha |-> <<1, 1>>,
       repeat_penalty |-> <<1, 1>>, repeat_penalty_window |-> 1],
      [temperature |-> <<1, 1>>, temperature_alpha |-> <<1, 2>>,
       repeat_penalty |-> <<0, 1>>, repeat_penalty_window |-> 3],
      [temperature |-> <<0, 1>>, temperature_alpha |-> <<1, 1>>,
       repeat_penalty |-> <<1, 2>>, repeat_penalty_window |-> 3],
      [temperature |-> <<1, 2>>, temperature_alpha |-> <<1, 1>>,
       repeat_penalty |-> <<1, 2>>, repeat_penalty_window |-> 0] }

\* min_len, max_len
LengthLimits ==
    { [min_len |-> 0, max_len |-> 1],
      [min_len |-> 0, max_len |-> 5],
      [min_len |-> 2, max_len |-> 1] }

KNormals == { <<0, 1>>, <<1, 2>>, <<1, 1>> }

GenParams ==
    {[no_trigrams |-> no_trigrams, no_bigrams |-> no_bigrams, k_normal |-> k_normal,
      temperature |-> profile.temperature,
      temperature_alpha |-> profile.temperature_alpha,
      repeat_penalty |-> profile.repeat_penalty,
      repeat_penalty_window |-> profile.repeat_penalty_window,
      min_len |-> limits.min_len, max_len |-> limits.max_len] :
        no_trigrams \in BOOLEAN, no_bigrams \in BOOLEAN, k_normal \in KNormals,
        profile \in SamplingProfiles, limits \in LengthLimits}

GenInit ==
    /\ model \in GenModels
    /\ params \in GenParams
    /\ chain \in SeqsOf(WordTokens, 0, MaxPrompt)
    /\ item = NotCalled
    /\ adopted = NoneAdopted
    /\ yielded = <<>>
    /\ NgramIdle
    /\ BuildIdle
    /\ TokensIdle

\* every outcome one call of next() can have in the current state, over the
\* iteration orders of the successor map and the draws
NextCalls ==
    LET order == continuations_order(model.transitions, params, chain)
        entries == order_continuations(model.transitions, chain, order)
    IN  IF order = 0
        THEN {[adopted |-> NoneAdopted, item |-> None, chain |-> chain]}
        ELSE {[adopted |-> [order |-> order, continuations |-> entries],
               item |-> result.item, chain |-> result.chain] :
                result \in UNION {select_outcomes(params, chain, continuations) :
                                    continuations \in IterationOrders(entries)}}

\* Generator::next
GeneratorNext ==
    /\ \E call \in NextCalls :
          /\ item' = call.item
          /\ chain' = call.chain
          /\ adopted' = call.adopted
          /\ yielded' = IF call.item.some THEN Append(yielded, call.item.value) ELSE yielded
    /\ UNCHANGED <<model, params, ngram_vars, build_vars, tokens_vars>>

GenNext == GeneratorNext

SpecGen == GenInit /\ [][GenNext]_vars

(***************************************************************************)
(* Claims about the generator.                                             *)
(***************************************************************************)
\* the last call of next() adopted a continuation that emits END_TOKEN
AdoptedEndToken ==
    \E continuation \in adopted.continuations : continuation[1] = END_TOKEN

\* C10: whatever the model, the prompt, the parameters and the table that
\* supplied the continuations, an item that next() yields is never END_TOKEN,
\* and so no word of the chain is.
C10_NoEndTokenYielded ==
    /\ item.some => item.value # END_TOKEN
    /\ \A i \in 1..Len(chain) : chain[i] # END_TOKEN

\* C10 happens: next() yielded a token out of trigram continuations that held
\* END_TOKEN as well
C10_Witness ==
    /\ item.some
    /\ adopted.order = 3
    /\ AdoptedEndToken
    /\ Cardinality(adopted.continuations) > 1

\* C11: the tokens one generator yields over all its calls of next() number
\* at most max_len.
C11_YieldedAtMostMaxLen == Len(yielded) <= params.max_len

\* C12: once next() has returned None, every later call returns None too.
C12_Fused == [][item = None => item' = None]_vars

\* C15: two runs over the same model, prompt and parameters that receive the
\* same draws yield the same tokens, whatever the iteration order of the
\* successor maps: in every state a call of next() returns the same item for
\* the same draws in any two iteration orders.
C15_Deterministic ==
    LET order == continuations_order(model.transitions, params, chain)
        orders == IterationOrders(order_continuations(model.transitions, chain, order))
    IN  order # 0 =>
            \A first \in orders, second \in orders :
                \A draws \in DrawSequences(first) :
                    select_next(params, chain, first, draws).item
                        = select_next(params, chain, second, draws).item

\* the prompt the generator was started on
Prompt == SubSeq(chain, 1, Len(chain) - Len(yielded))

\* the orders next() looks up
EnabledOrders ==
    {1} \cup (IF params.no_bigrams THEN {} ELSE {2})
        \cup (IF params.no_trigrams THEN {} ELSE {3})

\* the successors the table of an order holds for the current context
TableSuccessors(order) ==
    LET lifted_chain == construct_tailless(chain, order)
        found == for_ngram(model.transitions, lifted_chain[Len(lifted_chain)])
    IN  IF found.some THEN DOMAIN found.value ELSE {}

\* at every enabled order the context is absent or has no successor but END
NoSuccessorButEnd ==
    \A order \in EnabledOrders :
        \A ngram \in TableSuccessors(order) : token(ngram) = END_TOKEN

\* the unigram table of the two sentences [1, 2] and [3] at weight 1
TwoWordUnigrams ==
    (<<START_TOKEN>> :> (<<1>> :> 1 @@ <<3>> :> 1))
        @@ (<<1>> :> (<<2>> :> 1))
        @@ (<<2>> :> (<<END_TOKEN>> :> 1))
        @@ (<<3>> :> (<<END_TOKEN>> :> 1))

\* a generator over a model of these sentences started on [1] with
\* k_normal = 1.0, temperature = 1.0, repeat_penalty = 1.0, max_len = 5
TwoWordScenario ==
    /\ model.transitions[1] = Some(TwoWordUnigrams)
    /\ Prompt = <<1>>
    /\ params.k_normal = <<1, 1>>
    /\ params.temperature = <<1, 1>>
    /\ params.repeat_penalty = <<1, 1>>
    /\ params.max_len = 5

\* C16: when the context has no successor other than END at every enabled
\* order, or is in no table, next() returns None and yields nothing; a
\* generator started on the first word of the only sentence with its two
\* words yields the second word in its first call and None ever after.
C16_StopsWithoutSuccessor ==
    [][/\ NoSuccessorButEnd =>
            item' = None /\ chain' = chain /\ yielded' = yielded
       /\ TwoWordScenario /\ item = NotCalled =>
            item' = Some(2) /\ yielded' = <<2>>
       /\ TwoWordScenario /\ item # NotCalled =>
            item' = None /\ yielded' = <<2>>]_vars

\* C16 happens: the scenario's generator has yielded the second word and a
\* later call, with END the only successor at the trigram order, returned None
C16_Witness ==
    /\ TwoWordScenario
    /\ item = None
    /\ yielded = <<2>>
    /\ adopted.order = 3
    /\ NoSuccessorButEnd

\* the unigram table of the sentence [1, 1, 1] at weight 1
CycleUnigrams ==
    (<<START_TOKEN>> :> (<<1>> :> 1))
        @@ (<<1>> :> (<<1>> :> 2 @@ <<END_TOKEN>> :> 1))

\* C17: with repeat_penalty = 0.0, on a corpus whose sentence repeats one
\* token, the generator never yields the token that is the last of the chain.
C17_NoImmediateRepeat ==
    (/\ params.repeat_penalty = <<0, 1>>
     /\ params.repeat_penalty_window > 0
     /\ model.transitions[1] = Some(CycleUnigrams)) =>
        \A i \in 1..Len(yielded) :
            Len(Prompt) + i > 1 =>
                chain[Len(Prompt) + i] # chain[Len(Prompt) + i - 1]

\* C18: with k_normal = 0.0 next() returns None and yields nothing, whatever
\* the size of the candidate list.
C18_KNormalZeroStops ==
    [][params.k_normal = <<0, 1>> => item' = None /\ yielded' = yielded]_vars

\* the successors of the context at an order that the filter of step 1 keeps
FilteredSuccessors(order) == {ngram \in TableSuccessors(order) : ~is_end(ngram)}

\* the enabled orders whose lookup yields a filtered list that is not empty
YieldingOrders == {order \in EnabledOrders : FilteredSuccessors(order) # {}}

\* the (emitted token, count) pairs of the filtered successors at an order
OrderCandidates(order) ==
    LET lifted_chain == construct_tailless(chain, order)
        row == for_ngram(model.transitions, lifted_chain[Len(lifted_chain)]).value
    IN  {<<token(ngram), row[ngram]>> : ngram \in FilteredSuccessors(order)}

\* C22: in every call of next() the candidates are those of exactly one
\* table, the one of the highest enabled order whose lookup of the context
\* yields a filtered successor list that is not empty, with the counts of that
\* table; when no enabled order yields one the call adopts nothing and
\* returns None; a yielded token is one of the adopted candidates.
C22_BackOffOrder ==
    [][IF YieldingOrders = {}
       THEN adopted' = NoneAdopted /\ item' = None
       ELSE \E order \in YieldingOrders :
               /\ \A higher \in YieldingOrders : higher <= order
               /\ adopted'.order = order
               /\ adopted'.continuations = OrderCandidates(order)
               /\ item'.some =>
                    \E candidate \in OrderCandidates(order) :
                        item'.value = candidate[1]]_vars

\* C22 happens: with every table built and every order enabled, the trigram
\* and the bigram tables lack the context and the token yielded is a candidate
\* of the unigram table
C22_Witness ==
    /\ ~params.no_trigrams
    /\ ~params.no_bigrams
    /\ model.transitions[2].some
    /\ model.transitions[3].some
    /\ adopted.order = 1
    /\ item.some
    /\ yielded = <<item.value>>

\* no sentence of the corpus holds the value of END_TOKEN as a word: the
\* unigram END has a successor only when a word follows it in a sentence
CorpusWithoutEnd == <<END_TOKEN>> \notin DOMAIN model.transitions[1].value

\* C23: at every order the candidates that a call of next() adopts hold no
\* successor that emits END_TOKEN, so a context whose successors all emit
\* END_TOKEN at an order is not adopted at that order.
C23_NoEndCandidate ==
    CorpusWithoutEnd =>
        \A candidate \in adopted.continuations : candidate[1] # END_TOKEN

\* the counts of a list of candidates, in its order
Counts(continuations) == [i \in 1..Len(continuations) |-> continuations[i][2]]

\* C24: with n candidates and offset = floor((1 - k_normal) * n) / 2, the
\* candidates next() keeps are the middle n - 2 * offset ones of the candidates
\* in ascending order of count (the offset lowest and the offset highest
\* counts are removed), in whatever order the successor map was iterated.
C24_TrimsByCount ==
    LET order == continuations_order(model.transitions, params, chain)
        orders == IterationOrders(order_continuations(model.transitions, chain, order))
    IN  order # 0 =>
            \A continuations \in orders :
                LET n == Len(continuations)
                    offset == normal_offset(params.k_normal, n)
                    window == normal_window(params, continuations)
                IN  window.some =>
                        Counts(window.value)
                            = Counts(SubSeq(sort_by_count(continuations),
                                            offset + 1, n - offset))

\* the call adopted candidates and the k_normal trimming left some of them
WindowOpen(adoption) ==
    /\ adoption.order # 0
    /\ Cardinality(adoption.continuations)
          > 2 * normal_offset(params.k_normal, Cardinality(adoption.continuations))

\* C25: a call of next() made with more than max_len tokens in the chain
\* returns None, whatever min_len is; a call made with at most min_len (and at
\* most max_len) tokens in the chain that has candidates left after the
\* trimming yields one of them, it is not stopped by a candidate that emits
\* END_TOKEN.
C25_StopGating ==
    [][CorpusWithoutEnd =>
          /\ Len(chain) > params.max_len => item' = None
          /\ (/\ Len(chain) <= params.min_len
              /\ Len(chain) <= params.max_len
              /\ WindowOpen(adopted')) => item'.some]_vars

\* the last token of the chain, START_TOKEN for the empty chain
LastToken == IF chain = <<>> THEN START_TOKEN ELSE chain[Len(chain)]

\* C27: whenever next() yields t from a chain whose last token is p (START
\* for the empty chain), the unigram table of the model holds the transition
\* p -> t with a positive count, whichever order supplied the candidates.
C27_YieldedIsObserved ==
    [][item'.some /\ chain' # chain =>
          /\ HasEntry(model.transitions[1].value, <<LastToken>>, <<item'.value>>)
          /\ model.transitions[1].value[<<LastToken>>][<<item'.value>>] > 0]_vars

\* C28: a call of next() that yields t appends exactly t to the end of the
\* chain, a call that returns None leaves the chain as it is, no call changes
\* the model or the parameters, and the chain before a call is a prefix of
\* the chain after it, so the prompt stays a prefix of the chain forever.
C28_NextEffect ==
    [][/\ item'.some => chain' = Append(chain, item'.value)
       /\ ~item'.some => chain' = chain
       /\ model' = model
       /\ params' = params
       /\ IsPrefix(chain, chain')]_vars

\* C28 happens: a generator started on a prompt of one word yielded two
\* tokens and then returned None
C28_Witness ==
    /\ item = None
    /\ Len(yielded) = 2
    /\ Len(chain) = 3
    /\ adopted.order # 0

\* max(min_len, max_len)
LengthBound ==
    IF params.min_len >= params.max_len THEN params.min_len ELSE params.max_len

\* in the current state the rejection loop of next() ends for every iteration
\* order and every sequence of draws, having taken at most one draw for each
\* candidate it removed, and leaves at least one candidate
RejectionLoopEnds ==
    LET order == continuations_order(model.transitions, params, chain)
        orders == IterationOrders(order_continuations(model.transitions, chain, order))
    IN  order # 0 =>
            \A continuations \in orders :
                LET window == normal_window(params, continuations)
                IN  window.some =>
                        \A draws \in DrawSequences(window.value) :
                            LET left == rejection_loop(params, chain,
                                            [continuations |-> window.value,
                                             draws |-> draws])
                            IN  /\ Len(left) >= 1
                                /\ IsPrefix(left, window.value)

\* C29: whatever the model (cycles included), the prompt and the limits,
\* next() yields at most max(min_len, max_len) + 1 tokens: a call either
\* yields one more token or returns None, it returns None whenever the chain
\* is longer than max(min_len, max_len), and its rejection loop ends.
C29_Terminates ==
    [][/\ Len(yielded') <= LengthBound + 1
       /\ Len(chain) > LengthBound => item' = None
       /\ item' = None \/ Len(yielded') = Len(yielded) + 1
       /\ RejectionLoopEnds]_vars

\* C29 happens: on a model with a cycle a generator started on the empty
\* prompt yielded max(min_len, max_len) + 1 tokens and then returned None
C29_Witness ==
    /\ item = None
    /\ Prompt = <<>>
    /\ params.max_len = 5
    /\ Len(yielded) = LengthBound + 1
    /\ model.transitions[1] = Some(CycleUnigrams)

(***************************************************************************)
(* SpecTokens: vocabularies parsed from sample messages, merged into one   *)
(* another in any sequence, and messages tokenized with the result.        *)
(***************************************************************************)
SampleMessages ==
    { {},
      {<<"a">>},
      {<<"a", "b">>},
      {<<"b">>, <<"c", "b">>} }

\* the messages handed to tokenize_message
TokenizedSamples ==
    SampleMessages \cup { {<<"a", "b">>, <<"b", "a">>, <<"c", "a", "b">>} }

\* what parse_from_messages can return for each of the sample messages
SampleVocabularies ==
    [messages \in SampleMessages |-> parse_from_messages(messages)]

TokensInit ==
    /\ vocabulary = DefaultTokens
    /\ operand = DefaultTokens
    /\ last_call = NoCall
    /\ sources = <<>>
    /\ NgramIdle
    /\ BuildIdle
    /\ GenIdle

\* Tokens::parse_from_messages
ParseFromMessages ==
    /\ \E messages \in SampleMessages :
          \E parsed \in SampleVocabularies[messages] :
             /\ operand' = parsed
             /\ last_call' = [op |-> "parse_from_messages", messages |-> messages]
    /\ UNCHANGED <<vocabulary, sources, ngram_vars, build_vars, gen_vars>>

\* Tokens::merge
Merge ==
    /\ \E merged \in merge(vocabulary, operand) :
          /\ vocabulary' = merged
          /\ last_call' = [op |-> "merge"]
    /\ UNCHANGED <<operand, sources, ngram_vars, build_vars, gen_vars>>

\* TokenizedMessages::tokenize_message
TokenizeMessage ==
    /\ \E messages \in TokenizedSamples :
          \E result \in tokenize_message(messages, vocabulary) :
             last_call' = [op |-> "tokenize_message", messages |-> messages,
                           result |-> result]
    /\ UNCHANGED <<vocabulary, operand, sources, ngram_vars, build_vars, gen_vars>>

TokensNext == ParseFromMessages \/ Merge \/ TokenizeMessage

SpecTokens == TokensInit /\ [][TokensNext]_vars

(***************************************************************************)
(* Claims about the vocabulary and the tokenization.                       *)
(***************************************************************************)
Range(map) == {map[key] : key \in DOMAIN map}

\* word_token and token_word are inverse to one another and hold no sentinel
Bijective(v) ==
    /\ \A word \in DOMAIN v.word_token :
          /\ find_token(v, word).some
          /\ find_word(v, find_token(v, word).value) = Some(word)
    /\ \A tok \in DOMAIN v.token_word :
          /\ v.token_word[tok] \in DOMAIN v.word_token
          /\ v.word_token[v.token_word[tok]] = tok
    /\ \A first, second \in DOMAIN v.word_token :
          v.word_token[first] = v.word_token[second] => first = second
    /\ {START_TOKEN, END_TOKEN} \cap DOMAIN v.token_word = {}
    /\ {START_TOKEN, END_TOKEN} \cap Range(v.word_token) = {}

\* C13: after parse_from_messages and any sequence of merge calls, word_token
\* and token_word are mutually inverse bijections and neither sentinel is a
\* key of token_word or a value of word_token.
C13_VocabularyBijection == Bijective(vocabulary) /\ Bijective(operand)

\* C13 happens: a merge gave a word of its argument another token than the
\* argument had for it, in a vocabulary of three words
C13_Witness ==
    /\ last_call.op = "merge"
    /\ len(vocabulary) = 3
    /\ \E word \in DOMAIN operand.word_token :
          vocabulary.word_token[word] # operand.word_token[word]

Max(a, b) == IF a >= b THEN a ELSE b

\* C14: V = V1.merge(V2) has at least max(|V1|, |V2|) words, holds every word
\* of V1 and of V2, and maps every word of V1 to the token V1 mapped it to.
C14_MergeMonotone ==
    [][last_call'.op = "merge" =>
          /\ len(vocabulary') >= Max(len(vocabulary), len(operand))
          /\ DOMAIN vocabulary.word_token \cup DOMAIN operand.word_token
                \subseteq DOMAIN vocabulary'.word_token
          /\ \A word \in DOMAIN vocabulary.word_token :
                vocabulary'.word_token[word] = vocabulary.word_token[word]]_vars

\* C14 happens: a merge added a word to a vocabulary that shares another word
\* with the argument under a different token
C14_Witness ==
    /\ last_call.op = "merge"
    /\ len(vocabulary) > len(operand)
    /\ len(operand) > 1
    /\ \E word \in DOMAIN operand.word_token :
          vocabulary.word_token[word] # operand.word_token[word]
    /\ \E word \in DOMAIN operand.word_token :
          vocabulary.word_token[word] = operand.word_token[word]

\* some word of the messages has no token
UnknownWord(messages, v) ==
    \E message \in messages :
        \E i \in 1..Len(message) : message[i] \notin DOMAIN v.word_token

\* the word-by-word token image of a message
TokenImage(message, v) == [i \in 1..Len(message) |-> v.word_token[message[i]]]

\* C19: tokenize_message returns an error and no corpus if a word of a
\* sentence has no token, and else exactly the set of the word-by-word token
\* images of the sentences.
C19_TokenizeMessage ==
    last_call.op = "tokenize_message" =>
        IF UnknownWord(last_call.messages, vocabulary)
        THEN /\ ~last_call.result.ok
             /\ DOMAIN last_call.result = {"ok", "word"}
             /\ last_call.result.word \notin DOMAIN vocabulary.word_token
        ELSE /\ last_call.result.ok
             /\ last_call.result.messages =
                    {TokenImage(message, vocabulary) : message \in last_call.messages}

\* C19 happens: three messages were tokenized into three token sequences
C19_Witness ==
    /\ last_call.op = "tokenize_message"
    /\ last_call.result.ok
    /\ Cardinality(last_call.messages) = 3
    /\ Cardinality(last_call.result.messages) = 3

(***************************************************************************)
(* SpecDataset: a dataset is assembled as `dataset create` and the `add`   *)
(* subcommands do: messages are parsed into a vocabulary V and tokenized   *)
(* with it, with_messages stores the tokenized corpus and with_tokens      *)
(* merges V into dataset.tokens (here the variable vocabulary); the stored *)
(* sentences are then detokenized with dataset.tokens.                     *)
(***************************************************************************)
DatasetInit ==
    /\ NgramIdle
    /\ GenIdle
    /\ TokensIdle
    /\ dataset = <<>>
    /\ NGRAM_SIZE = 0
    /\ transitions = EmptyTransitions
    /\ query = NoQuery
    /\ chains = NotBuilt

DatasetUnchanged == UNCHANGED <<NGRAM_SIZE, transitions, query, chains, ngram_vars, gen_vars>>

\* Tokens::parse_from_messages on the messages of the next corpus
ParseCorpus ==
    /\ last_call.op # "with_messages"
    /\ Len(dataset) < MaxCorpora
    /\ \E messages \in SampleMessages :
          \E parsed \in SampleVocabularies[messages] :
             /\ operand' = parsed
             /\ last_call' = [op |-> "parse_from_messages", messages |-> messages]
    /\ UNCHANGED <<vocabulary, sources, dataset>>
    /\ DatasetUnchanged

\* TokenizedMessages::tokenize_message with the vocabulary just parsed, then
\* Dataset::with_messages
DatasetWithMessages ==
    /\ last_call.op = "parse_from_messages"
    /\ \E tokenized \in tokenize_message(last_call.messages, operand) :
          /\ tokenized.ok
          /\ dataset' = with_messages(dataset, tokenized.messages, 1)
          /\ sources' = Append(sources,
                [sentence \in tokenized.messages |->
                    CHOOSE message \in last_call.messages :
                        TokenImage(message, operand) = sentence])
    /\ last_call' = [op |-> "with_messages"]
    /\ UNCHANGED <<vocabulary, operand>>
    /\ DatasetUnchanged

\* Dataset::with_tokens with the vocabulary the corpus was tokenized with
DatasetWithTokens ==
    /\ last_call.op = "with_messages"
    /\ \E merged \in with_tokens(vocabulary, operand) : vocabulary' = merged
    /\ last_call' = [op |-> "with_tokens"]
    /\ UNCHANGED <<operand, sources, dataset>>
    /\ DatasetUnchanged

\* Tokens::detokenize_message of a stored sentence with dataset.tokens
DetokenizeMessage ==
    /\ last_call.op \in {"with_tokens", "detokenize_message"}
    /\ \E corpus \in 1..Len(dataset) :
          \E sentence \in dataset[corpus][1] :
             last_call' = [op |-> "detokenize_message", corpus |-> corpus,
                           sentence |-> sentence,
                           result |-> detokenize_message(vocabulary, sentence)]
    /\ UNCHANGED <<vocabulary, operand, sources, dataset>>
    /\ DatasetUnchanged

DatasetNext ==
    \/ ParseCorpus
    \/ DatasetWithMessages
    \/ DatasetWithTokens
    \/ DetokenizeMessage

SpecDataset == DatasetInit /\ [][DatasetNext]_vars

\* C30: once with_messages(tokenize(M, V), w) and with_tokens(V) have been
\* called for each corpus, every token of the stored corpora is a key of
\* dataset.tokens and find_word decodes it to the word it was tokenized from,
\* so detokenize_message of a stored sentence returns the text of the message
\* the sentence was tokenized from.
C30_DatasetDecodes ==
    /\ last_call.op \in {"with_tokens", "detokenize_message"} =>
          \A corpus \in 1..Len(dataset) :
             \A sentence \in dataset[corpus][1] :
                \A i \in 1..Len(sentence) :
                   /\ sentence[i] \in DOMAIN vocabulary.token_word
                   /\ find_word(vocabulary, sentence[i])
                         = Some(sources[corpus][sentence][i])
    /\ last_call.op = "detokenize_message" =>
          /\ last_call.result.ok
          /\ last_call.result.text
                = join(sources[last_call.corpus][last_call.sentence], " ")

====
